---- MODULE Spec2Model ----
(***************************************************************************)
(* Model of package cassette (src/cassette/cassette.go): the Cassette      *)
(* interaction store, its RWMutex discipline, DefaultMatcher, and the      *)
(* Save / Load persistence path over a one-file filesystem.                *)
(*                                                                         *)
(* Goroutines are the processes of Procs.  Every method is split at the    *)
(* points where another goroutine can interleave: lock acquisition, each   *)
(* read or write of c.Interactions, each filesystem call, lock release.    *)
(***************************************************************************)
EXTENDS Integers, Sequences, FiniteSets, Bags, TLC

VARIABLES
    Interactions,   \* c.Interactions: sequence of [id, Request, Response]
    Version,        \* c.Version
    Matcher,        \* c.Matcher: name of the predicate in effect
    mu,             \* c.RWMutex: [w |-> writer holding or pending, r |-> readers]
    th,             \* per goroutine: program counter and locals of the method it runs
    dirExists,      \* does filepath.Dir(c.File) exist on disk
    file,           \* content of c.File on disk
    loaded,         \* outcome of the last Load(name)
    nextId,         \* next fresh Interaction address
    nOps,           \* method calls started so far
    served,         \* bag of the ids returned by successful GetInteraction calls
    added,          \* ids whose AddInteraction has returned on the current cassette
    base,           \* records the current cassette held when it was created/loaded
    savedFrom,      \* c.Interactions as it was when the document on disk was marshalled
    mt              \* inputs and results of a DefaultMatcher evaluation

vars == <<Interactions, Version, Matcher, mu, th, dirExists, file, loaded,
          nextId, nOps, served, added, base, savedFrom, mt>>

cassetteVars == <<Interactions, Version, Matcher, mu, th, dirExists, file, loaded,
                  nextId, nOps, served, added, base, savedFrom>>

----------------------------------------------------------------------------
(* Bounds *)

NumProcs == 2
MaxOps == 4

Procs == 1..NumProcs

----------------------------------------------------------------------------
(* Program constants *)

cassetteFormatV1 == 1

ErrInteractionNotFound == "Requested interaction not found"

----------------------------------------------------------------------------
(* Data carried by requests and interactions.  Strings are atoms, except   *)
(* URLs, which are token sequences so that url.URL.String() is a real      *)
(* assembly, and "<ff>", which stands for a body holding a byte that is    *)
(* not valid UTF-8.                                                        *)

\* URL.String() as used by DefaultMatcher: scheme://host/path[?query]
URLString(u) ==
    <<u.Scheme, "://", u.Host, u.Path>>
        \o (IF u.RawQuery = "" THEN <<>> ELSE <<"?", u.RawQuery>>)

\* Variant that also compares the bodies.
DefaultMatcher_ComparesBody(r, i) ==
    r.Method = i.Method /\ URLString(r.URL) = i.URL /\ r.Body = i.Body

\* func DefaultMatcher(r, i) bool
DefaultMatcher(r, i) ==
    r.Method = i.Method /\ URLString(r.URL) = i.URL

\* A caller-supplied Matcher: method, URL and body must agree.
BodyMatcher(r, i) ==
    r.Method = i.Method /\ URLString(r.URL) = i.URL /\ r.Body = i.Body

Matchers == {"DefaultMatcher", "BodyMatcher"}

\* c.Matcher(r, i.Request)
Match(m, r, i) ==
    IF m = "DefaultMatcher" THEN DefaultMatcher(r, i) ELSE BodyMatcher(r, i)

GolangOrg == [Scheme |-> "http", Host |-> "golang.org", Path |-> "/", RawQuery |-> ""]
GolangOrgQ == [Scheme |-> "http", Host |-> "golang.org", Path |-> "/", RawQuery |-> "q=1"]

\* Live requests (http.Request values) issued against the cassette.
LiveRequests ==
    { [Method |-> "GET", URL |-> GolangOrg, Header |-> "Accept: a", Form |-> "", Body |-> ""],
      [Method |-> "POST", URL |-> GolangOrgQ, Header |-> "Accept: b", Form |-> "k=v", Body |-> "x"] }

NoRequest == [Method |-> "", URL |-> GolangOrg, Header |-> "", Form |-> "", Body |-> ""]

\* type Request / type Response values a recorder hands to AddInteraction.
Tape ==
    { [Request |-> [Body |-> "", Form |-> "", Headers |-> "Accept: a",
                    URL |-> URLString(GolangOrg), Method |-> "GET"],
       Response |-> [Body |-> "hello", Headers |-> "Server: s", Status |-> "200 OK", Code |-> 200]],
      [Request |-> [Body |-> "y", Form |-> "", Headers |-> "Accept: c",
                    URL |-> URLString(GolangOrg), Method |-> "GET"],
       Response |-> [Body |-> "<ff>", Headers |-> "", Status |-> "200 OK", Code |-> 200]] }

\* type Interaction, with the address of the value as its identity.
Interaction(id, t) == [id |-> id, Request |-> t.Request, Response |-> t.Response]

NoInteraction ==
    [id |-> 0,
     Request |-> [Body |-> "", Form |-> "", Headers |-> "", URL |-> <<>>, Method |-> ""],
     Response |-> [Body |-> "", Headers |-> "", Status |-> "", Code |-> 0]]

----------------------------------------------------------------------------
(* encoding/json as used by Save and Load *)

\* json.Marshal coerces strings to valid UTF-8: an invalid byte becomes U+FFFD.
CoerceUTF8(s) == IF s = "<ff>" THEN "<U+FFFD>" ELSE s

MarshalInteraction(i) ==
    [request |-> [body |-> CoerceUTF8(i.Request.Body),
                  form |-> CoerceUTF8(i.Request.Form),
                  headers |-> CoerceUTF8(i.Request.Headers),
                  url |-> i.Request.URL,
                  method |-> CoerceUTF8(i.Request.Method)],
     response |-> [body |-> CoerceUTF8(i.Response.Body),
                   headers |-> CoerceUTF8(i.Response.Headers),
                   status |-> CoerceUTF8(i.Response.Status),
                   code |-> i.Response.Code]]

\* json.MarshalIndent(c, "", "  "): Name, File and Matcher carry json:"-".
MarshalIndent(v, is) ==
    [kind |-> "doc", version |-> v,
     interactions |-> [k \in 1..Len(is) |-> MarshalInteraction(is[k])]]

UnmarshalInteraction(id, j) ==
    [id |-> id,
     Request |-> [Body |-> j.request.body, Form |-> j.request.form,
                  Headers |-> j.request.headers, URL |-> j.request.url,
                  Method |-> j.request.method],
     Response |-> [Body |-> j.response.body, Headers |-> j.response.headers,
                   Status |-> j.response.status, Code |-> j.response.code]]

\* File contents.  "doc" is a JSON object, "null" the JSON text null,
\* "garbage" text that is not JSON, "empty" a zero-length file and
\* "partial" a proper prefix of a document.
Absent == [kind |-> "absent", version |-> 0, interactions |-> <<>>]
NullDoc == [kind |-> "null", version |-> 0, interactions |-> <<>>]
Garbage == [kind |-> "garbage", version |-> 0, interactions |-> <<>>]
EmptyFile == [kind |-> "empty", version |-> 0, interactions |-> <<>>]
Partial(d) == [kind |-> "partial", version |-> d.version, interactions |-> d.interactions]

\* Which in-memory sequence the complete document on disk was marshalled from,
\* if any, and the Matcher of that cassette when it was written.
NotSaved == [valid |-> FALSE, seq |-> <<>>, matcher |-> "DefaultMatcher"]

----------------------------------------------------------------------------
(* Goroutine state *)

Idle ==
    [pc |-> "idle", r |-> NoRequest, i |-> NoInteraction, s |-> <<>>, k |-> 0,
     f |-> NoInteraction, seen |-> <<>>, data |-> Absent, old |-> Absent,
     again |-> FALSE, err |-> "nil"]

\* The cassette handle is usable: New, or a Load that returned (c, nil) with c # nil.
Usable == loaded.err \in {"none", "nil"} /\ ~loaded.isNil

AllIdle == \A p \in Procs : th[p].pc = "idle"

\* A call is started by an idle goroutine.  Idle goroutines are
\* indistinguishable, so the one with the least index is taken.
CanCall(p) ==
    /\ Usable
    /\ th[p].pc = "idle"
    /\ \A q \in Procs : q < p => th[q].pc # "idle"
    /\ nOps < MaxOps

----------------------------------------------------------------------------
(* sync.RWMutex.  Lock first excludes other writers and announces itself,  *)
(* which blocks new readers, then waits for the active readers to leave.   *)

\* Variant of the writer gate that ignores another writer.
LockFree_IgnoresWriter == TRUE

RLockFree == mu.w = 0

LockFree == mu.w = 0

\* Variant of the writer's wait that does not wait for the readers.
ReadersGone_IgnoresReaders == TRUE

ReadersGone == mu.r = {}

----------------------------------------------------------------------------
(* Cassette.AddInteraction(i)                                              *)
(*                                                                         *)
(* A call that finds its lock free takes it in the step that makes the     *)
(* call; one that finds it taken waits at the lock.                        *)

\* c.Lock(), first half: become the one pending writer.
Announce(p, i) ==
    /\ mu' = [mu EXCEPT !.w = p]
    /\ th' = [th EXCEPT ![p] = [@ EXCEPT !.pc = "add_wait", !.i = i]]

CallAddInteraction(p) ==
    /\ CanCall(p)
    /\ \E t \in Tape :
          IF LockFree
          THEN Announce(p, Interaction(nextId, t))
          ELSE /\ th' = [th EXCEPT ![p] = [@ EXCEPT !.pc = "add_lock",
                                                     !.i = Interaction(nextId, t)]]
               /\ UNCHANGED mu
    /\ nextId' = nextId + 1
    /\ nOps' = nOps + 1
    /\ UNCHANGED <<Interactions, Version, Matcher, dirExists, file, loaded,
                   served, added, base, savedFrom, mt>>

\* c.Lock() of a call that had to wait for another writer.
AddLock(p) ==
    /\ th[p].pc = "add_lock"
    /\ LockFree
    /\ Announce(p, th[p].i)
    /\ UNCHANGED <<Interactions, Version, Matcher, dirExists, file, loaded,
                   nextId, nOps, served, added, base, savedFrom, mt>>

\* c.Lock(), second half: wait until no reader holds the lock.  With the
\* lock held, append(c.Interactions, i) reads the slice ...
AddLockWait(p) ==
    /\ th[p].pc = "add_wait"
    /\ ReadersGone
    /\ th' = [th EXCEPT ![p] = [@ EXCEPT !.pc = "add_write", !.s = Interactions]]
    /\ UNCHANGED <<Interactions, Version, Matcher, mu, dirExists, file, loaded,
                   nextId, nOps, served, added, base, savedFrom, mt>>

\* Variant that puts the new interaction in front.
AddWrite_Prepends(p) ==
    /\ th[p].pc = "add_write"
    /\ Interactions' = <<th[p].i>> \o th[p].s
    /\ th' = [th EXCEPT ![p].pc = "add_unlock"]
    /\ UNCHANGED <<Version, Matcher, mu, dirExists, file, loaded,
                   nextId, nOps, served, added, base, savedFrom, mt>>

\* ... and stores the extended slice back in c.Interactions.
AddWrite(p) ==
    /\ th[p].pc = "add_write"
    /\ Interactions' = Append(th[p].s, th[p].i)
    /\ th' = [th EXCEPT ![p].pc = "add_unlock"]
    /\ UNCHANGED <<Version, Matcher, mu, dirExists, file, loaded,
                   nextId, nOps, served, added, base, savedFrom, mt>>

\* c.Unlock() and return.
AddUnlock(p) ==
    /\ th[p].pc = "add_unlock"
    /\ mu' = [mu EXCEPT !.w = 0]
    /\ added' = added \cup {th[p].i.id}
    /\ th' = [th EXCEPT ![p] = Idle]
    /\ UNCHANGED <<Interactions, Version, Matcher, dirExists, file, loaded,
                   nextId, nOps, served, base, savedFrom, mt>>

----------------------------------------------------------------------------
(* Cassette.GetInteraction(r) *)

\* Index of the first record of s, from position k on, whose request m accepts; 0 if none.
RECURSIVE FirstMatch(_, _, _, _)
FirstMatch(m, r, s, k) ==
    IF k > Len(s) THEN 0
    ELSE IF Match(m, r, s[k].Request) THEN k
    ELSE FirstMatch(m, r, s, k + 1)

\* Index of the last such record; 0 if none.
RECURSIVE LastMatch(_, _, _, _)
LastMatch(m, r, s, k) ==
    IF k > Len(s) THEN 0
    ELSE LET rest == LastMatch(m, r, s, k + 1) IN
         IF rest # 0 THEN rest
         ELSE IF Match(m, r, s[k].Request) THEN k ELSE 0

\* Variant that keeps scanning after a match, so the last match is returned.
Scan_LastMatchWins(m, r, s) == LastMatch(m, r, s, 1)

\* Variant whose scan starts at the second record.
Scan_SkipsFirst(m, r, s) == FirstMatch(m, r, s, 2)

\* for _, i := range c.Interactions { if c.Matcher(r, i.Request) { return i, nil } }
\* The index of the record the loop returns; 0 when it falls through.
Scan(m, r, s) == FirstMatch(m, r, s, 1)

\* c.RLock(), then the loop over c.Interactions, which runs with the read
\* lock held and touches locals only.
Lookup(p, r) ==
    LET n == Scan(Matcher, r, Interactions) IN
    /\ mu' = [mu EXCEPT !.r = @ \cup {p}]
    /\ th' = [th EXCEPT ![p] = [@ EXCEPT !.pc = "get_unlock", !.r = r,
                    !.s = Interactions, !.k = n,
                    !.f = IF n = 0 THEN NoInteraction ELSE Interactions[n],
                    !.err = IF n = 0 THEN ErrInteractionNotFound ELSE "nil"]]

CallGetInteraction(p) ==
    /\ CanCall(p)
    /\ \E r \in LiveRequests :
          IF RLockFree
          THEN Lookup(p, r)
          ELSE /\ th' = [th EXCEPT ![p] = [@ EXCEPT !.pc = "get_rlock", !.r = r]]
               /\ UNCHANGED mu
    /\ nOps' = nOps + 1
    /\ UNCHANGED <<Interactions, Version, Matcher, dirExists, file, loaded,
                   nextId, served, added, base, savedFrom, mt>>

\* c.RLock() of a call that had to wait for a writer.
GetRLock(p) ==
    /\ th[p].pc = "get_rlock"
    /\ RLockFree
    /\ Lookup(p, th[p].r)
    /\ UNCHANGED <<Interactions, Version, Matcher, dirExists, file, loaded,
                   nextId, nOps, served, added, base, savedFrom, mt>>

\* The deferred c.RUnlock() and the return of (i, nil) or (nil, ErrInteractionNotFound).
GetRUnlock(p) ==
    /\ th[p].pc = "get_unlock"
    /\ mu' = [mu EXCEPT !.r = @ \ {p}]
    /\ served' = IF th[p].f.id = 0 THEN served ELSE served (+) SetToBag({th[p].f.id})
    /\ th' = [th EXCEPT ![p] = Idle]
    /\ UNCHANGED <<Interactions, Version, Matcher, dirExists, file, loaded,
                   nextId, nOps, added, base, savedFrom, mt>>

----------------------------------------------------------------------------
(* Cassette.Save() *)

\* c.RLock()
SaveEnter(p) ==
    /\ mu' = [mu EXCEPT !.r = @ \cup {p}]
    /\ th' = [th EXCEPT ![p].pc = "save_check"]

CallSave(p) ==
    /\ CanCall(p)
    /\ IF RLockFree
       THEN SaveEnter(p)
       ELSE /\ th' = [th EXCEPT ![p].pc = "save_rlock"]
            /\ UNCHANGED mu
    /\ nOps' = nOps + 1
    /\ UNCHANGED <<Interactions, Version, Matcher, dirExists, file, loaded,
                   nextId, served, added, base, savedFrom, mt>>

\* c.RLock() of a call that had to wait for a writer.
SaveRLock(p) ==
    /\ th[p].pc = "save_rlock"
    /\ RLockFree
    /\ SaveEnter(p)
    /\ UNCHANGED <<Interactions, Version, Matcher, dirExists, file, loaded,
                   nextId, nOps, served, added, base, savedFrom, mt>>

\* os.Stat(cassetteDir), and os.MkdirAll when the directory is missing;
\* MkdirAll succeeds or fails as the filesystem decides.  seen is the
\* sequence whose length the check before it has read.
StatMkdirAll(p) ==
    IF dirExists
    THEN /\ th' = [th EXCEPT ![p] = [@ EXCEPT !.pc = "save_marshal", !.seen = Interactions]]
         /\ UNCHANGED dirExists
    ELSE \E ok \in BOOLEAN :
            IF ok
            THEN /\ dirExists' = TRUE
                 /\ th' = [th EXCEPT ![p] = [@ EXCEPT !.pc = "save_marshal",
                                                       !.seen = Interactions]]
            ELSE /\ UNCHANGED dirExists
                 /\ th' = [th EXCEPT ![p] = [@ EXCEPT !.pc = "save_unlock", !.err = "mkdir"]]

\* Variant without the early return for an empty cassette.
SaveCheck_NoEmptyCheck(p) ==
    /\ th[p].pc = "save_check"
    /\ StatMkdirAll(p)
    /\ UNCHANGED <<Interactions, Version, Matcher, mu, file, loaded,
                   nextId, nOps, served, added, base, savedFrom, mt>>

\* if len(c.Interactions) == 0 { return nil }, else the directory is ensured.
SaveCheck(p) ==
    /\ th[p].pc = "save_check"
    /\ IF Len(Interactions) = 0
       THEN /\ th' = [th EXCEPT ![p].pc = "save_unlock"]
            /\ UNCHANGED dirExists
       ELSE StatMkdirAll(p)
    /\ UNCHANGED <<Interactions, Version, Matcher, mu, file, loaded,
                   nextId, nOps, served, added, base, savedFrom, mt>>

\* Variant that serializes only the interactions that are not yet in the
\* document on disk.
SaveCreate_OnlyNew(p) ==
    /\ th[p].pc = "save_marshal"
    /\ \E res \in {"nil", "marshal", "create"} :
          IF res = "nil"
          THEN /\ file' = EmptyFile
               /\ savedFrom' = NotSaved
               /\ th' = [th EXCEPT ![p] = [@ EXCEPT !.pc = "save_write",
                               !.data = MarshalIndent(Version,
                                   IF savedFrom.valid
                                   THEN SubSeq(Interactions, Len(savedFrom.seq) + 1,
                                               Len(Interactions))
                                   ELSE Interactions),
                               !.s = Interactions,
                               !.old = file,
                               !.again = savedFrom.valid /\ savedFrom.seq = Interactions]]
          ELSE /\ UNCHANGED <<file, savedFrom>>
               /\ th' = [th EXCEPT ![p] = [@ EXCEPT !.pc = "save_unlock", !.err = res]]
    /\ UNCHANGED <<Interactions, Version, Matcher, mu, dirExists, loaded,
                   nextId, nOps, served, added, base, mt>>

\* data, err := json.MarshalIndent(c, "", "  "), whose error return is kept
\* as an outcome the encoder decides; then f, err := os.Create(c.File), which
\* creates the file or truncates it to length 0.  old is the content the
\* file had, and again tells that it was the complete document of this very
\* sequence, written by an earlier Save.
SaveCreate(p) ==
    /\ th[p].pc = "save_marshal"
    /\ \E res \in {"nil", "marshal", "create"} :
          IF res = "nil"
          THEN /\ file' = EmptyFile
               /\ savedFrom' = NotSaved
               /\ th' = [th EXCEPT ![p] = [@ EXCEPT !.pc = "save_write",
                               !.data = MarshalIndent(Version, Interactions),
                               !.s = Interactions,
                               !.old = file,
                               !.again = savedFrom.valid /\ savedFrom.seq = Interactions]]
          ELSE /\ UNCHANGED <<file, savedFrom>>
               /\ th' = [th EXCEPT ![p] = [@ EXCEPT !.pc = "save_unlock", !.err = res]]
    /\ UNCHANGED <<Interactions, Version, Matcher, mu, dirExists, loaded,
                   nextId, nOps, served, added, base, mt>>

\* Variant that returns nil when the write fails.
SaveWrite_SwallowsError(p) ==
    /\ th[p].pc = "save_write"
    /\ \/ /\ file' = th[p].data
          /\ savedFrom' = [valid |-> TRUE, seq |-> th[p].s, matcher |-> Matcher]
          /\ th' = [th EXCEPT ![p] = [Idle EXCEPT !.pc = "save_unlock",
                                                   !.again = th[p].again]]
       \/ /\ file' \in {EmptyFile, Partial(th[p].data)}
          /\ savedFrom' = NotSaved
          /\ th' = [th EXCEPT ![p] = [Idle EXCEPT !.pc = "save_unlock"]]
    /\ UNCHANGED <<Interactions, Version, Matcher, mu, dirExists, loaded,
                   nextId, nOps, served, added, base, mt>>

\* _, err = f.Write(data): all of data reaches the file, or the write fails
\* after none or only part of it did.
SaveWrite(p) ==
    /\ th[p].pc = "save_write"
    /\ \/ /\ file' = th[p].data
          /\ savedFrom' = [valid |-> TRUE, seq |-> th[p].s, matcher |-> Matcher]
          /\ th' = [th EXCEPT ![p] = [Idle EXCEPT !.pc = "save_unlock",
                                                   !.again = th[p].again]]
       \/ /\ file' \in {EmptyFile, Partial(th[p].data)}
          /\ savedFrom' = NotSaved
          /\ th' = [th EXCEPT ![p] = [Idle EXCEPT !.pc = "save_unlock", !.err = "write"]]
    /\ UNCHANGED <<Interactions, Version, Matcher, mu, dirExists, loaded,
                   nextId, nOps, served, added, base, mt>>

\* Variant without the defer: an error return leaves the read lock held.
SaveRUnlock_LeaksOnError(p) ==
    /\ th[p].pc = "save_unlock"
    /\ mu' = IF th[p].err = "nil" THEN [mu EXCEPT !.r = @ \ {p}] ELSE mu
    /\ th' = [th EXCEPT ![p] = Idle]
    /\ UNCHANGED <<Interactions, Version, Matcher, dirExists, file, loaded,
                   nextId, nOps, served, added, base, savedFrom, mt>>

\* The deferred f.Close() and c.RUnlock(), and the return of err.
SaveRUnlock(p) ==
    /\ th[p].pc = "save_unlock"
    /\ mu' = [mu EXCEPT !.r = @ \ {p}]
    /\ th' = [th EXCEPT ![p] = Idle]
    /\ UNCHANGED <<Interactions, Version, Matcher, dirExists, file, loaded,
                   nextId, nOps, served, added, base, savedFrom, mt>>

----------------------------------------------------------------------------
(* func New(name) and func Load(name) *)

\* json.Unmarshal(data, &c) of a JSON object: the fields present overwrite
\* those New set; each decoded interaction is a fresh value.
Decode(d, first) ==
    [k \in 1..Len(d.interactions) |-> UnmarshalInteraction(first + k - 1, d.interactions[k])]

\* Variant that drops the error of json.Unmarshal.
LoadErr_SwallowsDecode(f) ==
    IF f.kind = "absent" THEN "read" ELSE "nil"

\* The error Load returns for the content f of the file: that of
\* ioutil.ReadFile when the file cannot be read, else that of json.Unmarshal,
\* which is nil for a JSON object and for the literal null.
LoadErr(f) ==
    CASE f.kind = "absent" -> "read"
      [] f.kind \in {"doc", "null"} -> "nil"
      [] OTHER -> "decode"

\* Variant in which the cassette Load returns keeps the Matcher of the
\* cassette it replaces.
LoadedMatcher_Kept == Matcher

\* The Matcher of the cassette Load returns: New sets DefaultMatcher, and the
\* field is tagged json:"-", so no document has it and Unmarshal leaves it.
LoadedMatcher == "DefaultMatcher"

\* The lifecycle modelled is record, stop, reload, replay: Load runs once, when
\* no goroutine is inside a method of the cassette it replaces.
Load ==
    /\ AllIdle
    /\ loaded.err = "none"
    /\ Matcher' = LoadedMatcher
    /\ IF file.kind = "doc"
       THEN /\ Version' = file.version
            /\ Interactions' = Decode(file, nextId)
            /\ nextId' = nextId + Len(file.interactions)
       ELSE /\ Version' = cassetteFormatV1
            /\ Interactions' = <<>>
            /\ UNCHANGED nextId
    /\ loaded' = [err |-> LoadErr(file),
                  isNil |-> file.kind \in {"absent", "null"},
                  src |-> file,
                  from |-> savedFrom]
    /\ base' = Len(Interactions')
    /\ added' = {}
    /\ served' = EmptyBag
    /\ th' = [p \in Procs |-> Idle]
    /\ UNCHANGED <<mu, dirExists, file, nOps, savedFrom, mt>>

\* The exported field c.Matcher is assigned by the caller while it configures
\* the cassette: once, between calls, before a record was added to or served
\* from it.
SetMatcher ==
    /\ AllIdle
    /\ Usable
    /\ added = {} /\ served = EmptyBag
    /\ Matcher = "DefaultMatcher"
    /\ \E m \in Matchers \ {Matcher} : Matcher' = m
    /\ UNCHANGED <<Interactions, Version, mu, th, dirExists, file, loaded,
                   nextId, nOps, served, added, base, savedFrom, mt>>

----------------------------------------------------------------------------
(* Initial state: c := New(name), over a disk that may already hold a fixture *)

\* A fixture recorded earlier: two GETs of the same URL.
FixtureV1 ==
    MarshalIndent(cassetteFormatV1,
        << Interaction(0, CHOOSE t \in Tape : t.Response.Body = "hello"),
           Interaction(0, CHOOSE t \in Tape : t.Response.Body = "<ff>") >>)

\* A well-formed document that carries another version number.
FixtureV2 ==
    MarshalIndent(2, << Interaction(0, CHOOSE t \in Tape : t.Response.Body = "hello") >>)

\* Disks of the record-and-replay lifecycle: nothing recorded yet, or a fixture.
InitialDisks ==
    { <<FALSE, Absent>>, <<TRUE, FixtureV1>> }

\* Disks whose file is not a version 1 document.
ForeignDisks ==
    { <<TRUE, FixtureV2>>, <<TRUE, NullDoc>>, <<TRUE, Garbage>> }

NoEval ==
    [live |-> NoRequest, rec |-> NoInteraction.Request, v |-> "none",
     done |-> FALSE, res |-> FALSE, res2 |-> FALSE]

NewCassette ==
    /\ Interactions = <<>>
    /\ Version = cassetteFormatV1
    /\ Matcher = "DefaultMatcher"
    /\ mu = [w |-> 0, r |-> {}]
    /\ th = [p \in Procs |-> Idle]
    /\ loaded = [err |-> "none", isNil |-> FALSE, src |-> Absent, from |-> NotSaved]
    /\ nextId = 1
    /\ nOps = 0
    /\ served = EmptyBag
    /\ added = {}
    /\ base = 0
    /\ savedFrom = NotSaved

Init ==
    /\ NewCassette
    /\ \E d \in InitialDisks : dirExists = d[1] /\ file = d[2]
    /\ mt = NoEval

Next ==
    \/ \E p \in Procs : CallAddInteraction(p)
    \/ \E p \in Procs : AddLock(p)
    \/ \E p \in Procs : AddLockWait(p)
    \/ \E p \in Procs : AddWrite(p)
    \/ \E p \in Procs : AddUnlock(p)
    \/ \E p \in Procs : CallGetInteraction(p)
    \/ \E p \in Procs : GetRLock(p)
    \/ \E p \in Procs : GetRUnlock(p)
    \/ \E p \in Procs : CallSave(p)
    \/ \E p \in Procs : SaveRLock(p)
    \/ \E p \in Procs : SaveCheck(p)
    \/ \E p \in Procs : SaveCreate(p)
    \/ \E p \in Procs : SaveWrite(p)
    \/ \E p \in Procs : SaveRUnlock(p)
    \/ Load
    \/ SetMatcher

Spec == Init /\ [][Next]_vars

\* The steps a goroutine takes inside a call it has made.
Step(p) ==
    \/ AddLock(p) \/ AddLockWait(p) \/ AddWrite(p) \/ AddUnlock(p)
    \/ GetRLock(p) \/ GetRUnlock(p)
    \/ SaveRLock(p) \/ SaveCheck(p) \/ SaveCreate(p) \/ SaveWrite(p) \/ SaveRUnlock(p)

\* The Go scheduler runs every goroutine that can run, and a goroutine
\* waiting in Lock or RLock gets the lock once it is free: no step that stays
\* possible is postponed for ever.  The Matcher and the filesystem calls
\* return.
Fairness == \A p \in Procs : WF_vars(Step(p))

\* The calls on one cassette, c := New(name) with nothing recorded yet.  Load
\* and the assignment of c.Matcher happen only while no call is in flight, so
\* they have no part in whether a call returns.
InitFair ==
    /\ NewCassette
    /\ dirExists = FALSE /\ file = Absent
    /\ mt = NoEval

NextCalls ==
    \/ \E p \in Procs : CallAddInteraction(p)
    \/ \E p \in Procs : CallGetInteraction(p)
    \/ \E p \in Procs : CallSave(p)
    \/ \E p \in Procs : Step(p)

SpecFair == InitFair /\ [][NextCalls]_vars /\ Fairness

\* The same program over the foreign disks.
InitDisk ==
    /\ NewCassette
    /\ \E d \in ForeignDisks : dirExists = d[1] /\ file = d[2]
    /\ mt = NoEval

SpecDisk == InitDisk /\ [][Next]_vars

----------------------------------------------------------------------------
(* DefaultMatcher as a function of its two arguments: the initial state    *)
(* draws a live request, a recorded request and a way to vary the fields   *)
(* other than method and URL; the one action evaluates the matcher on the  *)
(* pair and on the varied pair.                                            *)

MatcherURLs ==
    { GolangOrg, GolangOrgQ,
      [Scheme |-> "http", Host |-> "example.com", Path |-> "/", RawQuery |-> ""] }

MatcherLive ==
    [Method : {"GET", "POST"}, URL : MatcherURLs, Header : {"", "Accept: a"},
     Form : {"", "k=v"}, Body : {"", "x"}]

MatcherRecorded ==
    { [Body |-> b, Form |-> f, Headers |-> h, URL |-> URLString(u), Method |-> m] :
        b \in {"", "x"}, f \in {"", "k=v"}, h \in {"", "Accept: a"},
        u \in MatcherURLs, m \in {"GET", "POST"} }

Variations == {"headers", "form", "body", "all"}

Flip(x, a, b) == IF x = a THEN b ELSE a

VaryLive(r, v) ==
    [r EXCEPT !.Header = IF v \in {"headers", "all"} THEN Flip(@, "", "Accept: a") ELSE @,
              !.Form = IF v \in {"form", "all"} THEN Flip(@, "", "k=v") ELSE @,
              !.Body = IF v \in {"body", "all"} THEN Flip(@, "", "x") ELSE @]

VaryRecorded(i, v) ==
    [i EXCEPT !.Headers = IF v = "headers" THEN Flip(@, "", "Accept: a") ELSE @,
              !.Form = IF v = "form" THEN Flip(@, "", "k=v") ELSE @,
              !.Body = IF v = "body" THEN Flip(@, "", "x") ELSE @]

InitMatcher ==
    /\ NewCassette
    /\ dirExists = FALSE /\ file = Absent
    /\ \E r \in MatcherLive, i \in MatcherRecorded, v \in Variations :
          mt = [live |-> r, rec |-> i, v |-> v, done |-> FALSE, res |-> FALSE, res2 |-> FALSE]

EvalDefaultMatcher ==
    /\ ~mt.done
    /\ mt' = [mt EXCEPT !.done = TRUE,
                        !.res = DefaultMatcher(mt.live, mt.rec),
                        !.res2 = DefaultMatcher(VaryLive(mt.live, mt.v),
                                                VaryRecorded(mt.rec, mt.v))]
    /\ UNCHANGED cassetteVars

NextMatcher == EvalDefaultMatcher

SpecMatcher == InitMatcher /\ [][NextMatcher]_vars

----------------------------------------------------------------------------
(* Properties *)

InGet(p) == th[p].pc = "get_unlock"

Found(p) == InGet(p) /\ th[p].f.id # 0

Matches(r, seq) == {k \in 1..Len(seq) : Match(Matcher, r, seq[k].Request)}

Occurrences(id) == Cardinality({k \in 1..Len(Interactions) : Interactions[k].id = id})

NoAddInFlight ==
    \A p \in Procs : th[p].pc \notin {"add_lock", "add_wait", "add_write", "add_unlock"}

\* C1: a record that GetInteraction has returned is no longer in the
\* cassette's sequence, so no record is returned by two lookups.
C1_OneShotConsumption ==
    /\ \A k \in 1..Len(Interactions) : ~BagIn(Interactions[k].id, served)
    /\ \A id \in BagToSet(served) : CopiesIn(id, served) = 1

\* C2: two lookups that are in flight at the same time never both hold the
\* same record as their result.
C2_ConcurrentLookupsDistinct ==
    \A p, q \in Procs :
        (p # q /\ Found(p) /\ Found(q)) => th[p].f.id # th[q].f.id

\* C3: every interaction whose AddInteraction has returned is in the
\* sequence exactly once, and once no append is in flight the sequence holds
\* exactly the records the cassette started with plus the appended ones.
C3_NoLostAppend ==
    /\ \A id \in added : Occurrences(id) = 1
    /\ NoAddInFlight => Len(Interactions) = base + Cardinality(added)

\* Three appends have returned and the sequence order differs from the call
\* order: a later caller overtook one that was waiting at the lock.
C3_Witness ==
    /\ NoAddInFlight
    /\ Cardinality(added) >= 3
    /\ \E j, k \in 1..Len(Interactions) :
          j < k /\ Interactions[j].id > Interactions[k].id

\* C4: on a cassette loaded from the document a Save wrote, every lookup that
\* succeeds returns the response of the record that was added at that place,
\* field for field, and each loaded record is served at most once.
C4_SaveLoadRoundTrip ==
    (loaded.err = "nil" /\ ~loaded.isNil /\ loaded.from.valid) =>
        /\ \A p \in Procs :
              (Found(p) /\ th[p].k <= Len(loaded.from.seq)) =>
                  th[p].f.Response = loaded.from.seq[th[p].k].Response
        /\ \A id \in BagToSet(served) : CopiesIn(id, served) = 1

\* C5: the record a lookup returns matches the request and no record before
\* it in the sequence does.
C5_FirstMatchWins ==
    \A p \in Procs :
        Found(p) =>
            /\ th[p].k \in 1..Len(Interactions)
            /\ Interactions[th[p].k] = th[p].f
            /\ Match(Matcher, th[p].r, th[p].f.Request)
            /\ \A j \in 1..(th[p].k - 1) : ~Match(Matcher, th[p].r, Interactions[j].Request)

\* A lookup returns a record although more than one record matches.
C5_Witness ==
    \E p \in Procs :
        /\ Found(p)
        /\ Cardinality(Matches(th[p].r, Interactions)) >= 2

\* C6: a lookup ends with ErrInteractionNotFound exactly when no record of
\* the sequence matches the request, and then the sequence is the one the
\* lookup found when it took the lock.
C6_NotFoundIffNoMatch ==
    \A p \in Procs :
        InGet(p) =>
            /\ (th[p].err = ErrInteractionNotFound) <=> (Matches(th[p].r, Interactions) = {})
            /\ (th[p].err = ErrInteractionNotFound) => (th[p].f.id = 0 /\ Interactions = th[p].s)
            /\ (th[p].err # ErrInteractionNotFound) => (th[p].err = "nil" /\ th[p].f.id # 0)

\* A lookup on a cassette that holds records ends with ErrInteractionNotFound.
C6_Witness ==
    \E p \in Procs :
        InGet(p) /\ th[p].err = ErrInteractionNotFound /\ Len(Interactions) > 0

\* C7: the step in which Save finds the sequence empty changes neither the
\* directory nor the file and leads straight to the return of nil; no Save
\* of an empty cassette is ever at a filesystem step.
C7_EmptySaveTouchesNothing ==
    /\ [](\A p \in Procs :
            th[p].pc \in {"save_marshal", "save_write"} => Len(Interactions) > 0)
    /\ [][\A p \in Procs :
            (th[p].pc = "save_check" /\ Len(Interactions) = 0 /\ th'[p].pc # "save_check") =>
                /\ dirExists' = dirExists
                /\ file' = file
                /\ th'[p].pc = "save_unlock"
                /\ th'[p].err = "nil"]_vars

\* Save is about to return nil for an empty cassette while the disk holds a fixture.
C7_Witness ==
    \E p \in Procs :
        /\ th[p].pc = "save_unlock"
        /\ th[p].err = "nil"
        /\ Len(Interactions) = 0
        /\ file.kind = "doc"

\* C8: Load of a well-formed document whose version is not 1 returns an error.
C8_UnsupportedVersionRejected ==
    (loaded.src.kind = "doc" /\ loaded.src.version # cassetteFormatV1) =>
        loaded.err \notin {"none", "nil"}

\* C9: DefaultMatcher is true exactly when the methods are equal and the
\* live request's URL string equals the recorded URL, and its result does
\* not change when headers, form values or bodies do.
C9_DefaultMatcherMethodAndURL ==
    mt.done =>
        /\ mt.res <=> (mt.live.Method = mt.rec.Method /\ URLString(mt.live.URL) = mt.rec.URL)
        /\ mt.res2 = mt.res

\* DefaultMatcher accepts a pair with a query string whose bodies, headers
\* and form values all differ.
C9_Witness ==
    /\ mt.done
    /\ mt.res
    /\ mt.live.URL.RawQuery # ""
    /\ mt.live.Body # mt.rec.Body
    /\ mt.live.Header # mt.rec.Headers
    /\ mt.live.Form # mt.rec.Form

\* C10: while a Save has created the file and not yet written it, the file
\* holds the content it had before that Save or a complete document.
C10_SaveCrashAtomic ==
    \A p \in Procs :
        th[p].pc = "save_write" => (file = th[p].old \/ file.kind = "doc")

IsPrefix(s, t) == Len(s) =< Len(t) /\ SubSeq(t, 1, Len(s)) = s

InSave(p) == th[p].pc \in {"save_check", "save_marshal", "save_write", "save_unlock"}

\* C11: a Save that runs while AddInteraction calls are made works on one
\* sequence: between its emptiness check and its serialization no append
\* takes effect, the document it writes is the serialization of the sequence
\* it checked, and the sequence of a written document is a prefix of the
\* cassette's sequence from then on.
C11_SaveSeesOneSequence ==
    /\ \A p \in Procs :
          /\ th[p].pc = "save_marshal" => Interactions = th[p].seen
          /\ th[p].pc = "save_write" =>
                /\ th[p].s = th[p].seen
                /\ th[p].data = MarshalIndent(Version, th[p].seen)
                /\ IsPrefix(th[p].seen, Interactions)
    /\ (savedFrom.valid /\ loaded.err = "none") => IsPrefix(savedFrom.seq, Interactions)

\* A Save has serialized the sequence and an AddInteraction made meanwhile
\* waits for it to leave.
C11_Witness ==
    \E p, q \in Procs :
        /\ th[p].pc = "save_write"
        /\ th[q].pc = "add_wait"
        /\ mu.w = q /\ p \in mu.r

\* Inside the critical section of AddInteraction (write lock held) or of
\* GetInteraction (read lock held).
InCritical(p) == th[p].pc \in {"add_write", "add_unlock", "get_unlock"}

\* C12: AddInteraction and GetInteraction are serialized by one exclusive
\* lock: no two of these operations, two lookups or a lookup and an append,
\* are inside their critical sections at the same time.
C12_AddAndGetExclusive ==
    \A p, q \in Procs : (InCritical(p) /\ InCritical(q)) => p = q

\* C13: the Matcher is not persisted: the cassette a successful Load returns
\* has DefaultMatcher, whatever Matcher the saved cassette had.
C13_LoadRestoresDefaultMatcher ==
    [][(loaded.err = "none" /\ loaded'.err = "nil" /\ ~loaded'.isNil)
          => Matcher' = "DefaultMatcher"]_vars

\* A cassette saved while it had a custom Matcher has been loaded again.
C13_Witness ==
    /\ loaded.err = "nil" /\ ~loaded.isNil
    /\ loaded.from.valid
    /\ loaded.from.matcher = "BodyMatcher"
    /\ loaded.src = MarshalIndent(cassetteFormatV1, loaded.from.seq)
    /\ Matcher = "DefaultMatcher"

C15_LoadFailureReported ==
    /\ loaded.err # ErrInteractionNotFound
    /\ loaded.err # "none" =>
          /\ loaded.src.kind = "absent" => loaded.err = "read"
          /\ loaded.src.kind \in {"empty", "partial", "garbage"} => loaded.err = "decode"

\* Load has met a file that a failed write left incomplete.
C15_Witness ==
    /\ loaded.err = "decode"
    /\ loaded.src.kind = "partial"

\* Goroutine p takes a step of Save.
SaveStep(p) ==
    /\ th'[p] # th[p]
    /\ \/ InSave(p)
       \/ th'[p].pc \in {"save_rlock", "save_check"}

\* C16: Save returns nil only when the sequence was empty or the complete
\* document was written, so a failing MkdirAll, MarshalIndent, Create or
\* Write is returned as a non-nil error; and no step of Save changes the
\* in-memory sequence, the version or the Matcher.
C16_SaveErrorsReported ==
    [][\A p \in Procs :
          /\ (th[p].pc \in {"save_check", "save_marshal", "save_write"}
                /\ th'[p].pc = "save_unlock")
             => (th'[p].err = "nil"
                   <=> \/ th[p].pc = "save_check" /\ Len(Interactions) = 0
                       \/ th[p].pc = "save_write" /\ file' = th[p].data
                                                  /\ file'.kind = "doc")
          /\ SaveStep(p) => UNCHANGED <<Interactions, Version, Matcher>>]_vars

\* A Save whose write failed part-way is about to return the error.
C16_Witness ==
    \E p \in Procs :
        /\ th[p].pc = "save_unlock" /\ th[p].err = "write"
        /\ file.kind = "partial"
        /\ Len(Interactions) > 0

HoldsRLock(p) ==
    th[p].pc \in {"get_unlock", "save_check", "save_marshal", "save_write", "save_unlock"}

HoldsLock(p) == th[p].pc \in {"add_wait", "add_write", "add_unlock"}

\* C17: the lock is held by exactly the goroutines that are inside a locked
\* section, so every return path has released it, and under fair scheduling
\* every call that was made returns.
C17_EveryCallReturns ==
    /\ [](/\ mu.r = {p \in Procs : HoldsRLock(p)}
          /\ \A p \in Procs : HoldsLock(p) <=> mu.w = p)
    /\ \A p \in Procs : (th[p].pc # "idle") ~> (th[p].pc = "idle")

\* An AddInteraction waits for a Save that is on an error return path.
C17_Witness ==
    \E p, q \in Procs :
        /\ th[p].pc = "add_wait" /\ mu.w = p
        /\ th[q].pc = "save_unlock" /\ th[q].err # "nil"
        /\ q \in mu.r

\* C18: AddInteraction has no failing outcome and appends at the end: the
\* step that stores the record leaves the sequence it found, followed by the
\* record, and that is still the case when the call returns.
C18_AppendsAtEnd ==
    /\ [][\A p \in Procs :
             (th[p].pc = "add_write" /\ th'[p].pc = "add_unlock")
             => Interactions' = Append(Interactions, th[p].i)]_vars
    /\ [](\A p \in Procs :
             th[p].pc = "add_unlock" =>
                 (/\ th[p].err = "nil"
                  /\ Interactions = Append(th[p].s, th[p].i)))

\* An AddInteraction has stored its record behind two earlier ones.
C18_Witness ==
    \E p \in Procs :
        /\ th[p].pc = "add_unlock"
        /\ Len(Interactions) = 3
        /\ Interactions[3] = th[p].i

\* C19: whenever Load returns a nil error, whatever readable content the file
\* had, it returns a cassette and not nil.
C19_NilErrorMeansCassette ==
    loaded.err = "nil" => ~loaded.isNil

============================================================================
